---- MODULE Spec2Model ----
(***************************************************************************)
(* Model of the OANDA streaming client (package client).                   *)
(*                                                                         *)
(* The package keeps one process-wide variable, baseUrl, written by the    *)
(* constructors New and NewTransaction and read when a run computes its    *)
(* URL.  A run (Client.Run or Client.RunTransactions) builds the request,  *)
(* connects, allocates ONE decode target and then loops: ReadBytes,        *)
(* json.Unmarshal into the same target, filter, synchronous handler call.  *)
(*                                                                         *)
(* A JSON line is a function from the keys it carries to their values;     *)
(* json.Unmarshal overwrites the fields of the target whose keys are       *)
(* present and leaves every other field as it was.  Records are keyed by   *)
(* the json tags of the Go struct fields.                                  *)
(***************************************************************************)
EXTENDS Integers, Sequences, FiniteSets

\* ---------------------------------------------------------------- bounds
MaxClients == 2     \* clients constructed in one behaviour
MaxLines == 3       \* newline-terminated lines a response body delivers
MaxAsks == 3        \* quotes in the asks of the Tick under test
MaxBids == 3        \* quotes in the bids of the Tick under test
MaxTimeCalls == 3   \* timestamp accessor calls made on the Tick under test
MaxInstrument == 4  \* characters in the instrument of the Tick under test

\* ---------------------------------------------------------------- inputs
\* "%zz" is an account whose text is an invalid URL escape.
Accounts == {"A1", "%zz"}
Currencies == {"EUR_USD"}

VARIABLES
    baseUrl,    \* package variable baseUrl (a format template)
    clients,    \* the Client values constructed so far, in order
    method,     \* "none", "Run" or "RunTransactions": the run in progress
    runner,     \* index in clients of the client that runs (0: none)
    pc,         \* position of the run: "idle", "read", "handler", "done"
    requested,  \* URL handed to http.NewRequest (<<>>: none yet)
    connFail,   \* what failed while connecting: "none", "request", "transport"
    attempts,   \* number of http.DefaultClient.Do calls made
    retErr,     \* the error the run returned ("nil": has not returned)
    heap,       \* allocated decode targets, by address
    received,   \* results of the ReadBytes calls, in order
    ndecodes,   \* number of json.Unmarshal calls made
    calls,      \* handler invocations made, in order
    inHandler,  \* handler invocations that have not returned yet
    cache,      \* the parsedTime field of each allocated Tick, by address
    stamps,     \* what the timestamp accessors returned to the handler
    tick,       \* a Tick a caller holds and applies the accessors to
    result,     \* what the last accessor call on tick returned
    ncalls,     \* number of accessor calls made on tick
    nparses,    \* number of time.Parse calls made for tick
    firstParsed \* the first instant parsed successfully for tick (<<>>: none)

vars == <<baseUrl, clients, method, runner, pc, requested, connFail, attempts,
          retErr, heap, received, ndecodes, calls, inHandler, cache, stamps,
          tick, result, ncalls, nparses, firstParsed>>

tickVars == <<tick, result, ncalls, nparses, firstParsed>>

streamVars == <<baseUrl, clients, method, runner, pc, requested, connFail, attempts,
                retErr, heap, received, ndecodes, calls, inHandler, cache, stamps>>

\* ----------------------------------------------------------------- times
\* Timestamp texts, and the instants time.Parse(time.RFC3339Nano, text)
\* makes of them.  An instant is [unix, nsec]; unix is the int64 of
\* Time.Unix() written as <<q, r>> for q * 10^9 + r with 0 <= r < 10^9.
\* The accessors return their int64 in the same notation.
PriceTime == "2016-12-20T05:55:35.676011610Z"
PriceTimeTokyo == "2016-12-20T14:55:35.67601161+09:00"
HeartbeatTime == "2016-12-20T05:55:46.064294036Z"
YearOneTime == "0001-01-01T00:00:00Z"
NotATime == "20/12/2016 05:55"

\* time.Time{}: January 1, year 1, 00:00:00 UTC
ZeroTime == [unix |-> <<-63, 864403200>>, nsec |-> 0]

\* Time.IsZero
IsZero(t) == t = ZeroTime

\* time.Parse(time.RFC3339Nano, text)
Parse(text) ==
    CASE text \in {PriceTime, PriceTimeTokyo} ->
             [val |-> [unix |-> <<1, 482213335>>, nsec |-> 676011610], err |-> FALSE]
      [] text = HeartbeatTime ->
             [val |-> [unix |-> <<1, 482213346>>, nsec |-> 64294036], err |-> FALSE]
      [] text = YearOneTime -> [val |-> ZeroTime, err |-> FALSE]
      [] OTHER -> [val |-> ZeroTime, err |-> TRUE]

\* Tick.parseTime on a Tick with time text t.time and cache t.parsedTime:
\* the value and error returned, the cache afterwards, and the number of
\* time.Parse calls made.
parseTime(t) ==
    IF ~IsZero(t.parsedTime)
    THEN [val |-> t.parsedTime, err |-> FALSE, parsedTime |-> t.parsedTime, parses |-> 0]
    ELSE LET p == Parse(t.time)
         IN  IF p.err
             THEN [val |-> p.val, err |-> TRUE, parsedTime |-> t.parsedTime, parses |-> 1]
             ELSE [val |-> p.val, err |-> FALSE, parsedTime |-> p.val, parses |-> 1]

\* Tick.UnixTimestamp and Tick.Nanoseconds: [val, err] and the parseTime call
UnixTimestamp(t) ==
    LET p == parseTime(t)
    IN  [val |-> IF p.err THEN <<0, 0>> ELSE p.val.unix, err |-> p.err, parsed |-> p]
Nanoseconds(t) ==
    LET p == parseTime(t)
    IN  [val |-> IF p.err THEN <<0, 0>> ELSE <<0, p.val.nsec>>, err |-> p.err, parsed |-> p]
Accessor(op, t) == IF op = "UnixTimestamp" THEN UnixTimestamp(t) ELSE Nanoseconds(t)

\* ------------------------------------------------------------- templates
\* A format template is a sequence of literal pieces and "%s" verbs.
PriceLive == <<"https://stream-fxtrade.oanda.com/v3/accounts/", "%s",
               "/pricing/stream?instruments=", "%s">>
PricePractice == <<"https://stream-fxpractice.oanda.com/v3/accounts/", "%s",
                   "/pricing/stream?instruments=", "%s">>
TransactionLive == <<"https://api-fxtrade.oanda.com/v3/accounts/", "%s",
                     "/transactions/stream">>
TransactionPractice == <<"https://api-fxpractice.oanda.com/v3/accounts/", "%s",
                         "/transactions/stream">>

PriceTemplate(live) == IF live THEN PriceLive ELSE PricePractice
TransactionTemplate(live) == IF live THEN TransactionLive ELSE TransactionPractice

Verbs(tmpl) == Cardinality({i \in 1..Len(tmpl) : tmpl[i] = "%s"})
VerbsBefore(tmpl, i) == Cardinality({j \in 1..i : tmpl[j] = "%s"})

\* fmt.Sprintf with string operands: the k-th verb takes the k-th operand,
\* a verb without operand prints %!s(MISSING), and operands left over are
\* reported in a trailing %!(EXTRA ...) piece.
Sprintf(tmpl, args) ==
    LET body == [i \in 1..Len(tmpl) |->
                    IF tmpl[i] # "%s" THEN tmpl[i]
                    ELSE IF VerbsBefore(tmpl, i) <= Len(args)
                         THEN args[VerbsBefore(tmpl, i)]
                         ELSE "%!s(MISSING)"]
    IN  IF Len(args) > Verbs(tmpl)
        THEN body \o <<"%!(EXTRA">> \o SubSeq(args, Verbs(tmpl) + 1, Len(args))
        ELSE body

\* Client.url
url(c, base) == Sprintf(base, <<c.account, c.currencies>>)

\* the URL RunTransactions formats itself
TransactionsUrl(c, base) == Sprintf(base, <<c.account>>)

\* http.NewRequest fails when the URL does not parse: an invalid escape in
\* the path (the query text is kept raw and is not validated).
QueryStart(u) ==
    IF \E i \in 1..Len(u) : u[i] = "/pricing/stream?instruments="
    THEN CHOOSE i \in 1..Len(u) : u[i] = "/pricing/stream?instruments="
    ELSE Len(u) + 1
NewRequestFails(u) ==
    \E i \in 1..Len(u) : i < QueryStart(u) /\ u[i] \in {"%zz", "%!(EXTRA", "%!s(MISSING)"}

\* ----------------------------------------------------------------- lines
NoKeys == [k \in {} |-> ""]
Obj(o) == [json |-> "object", obj |-> o]

\* price stream
Heartbeat == Obj([type |-> "HEARTBEAT", time |-> HeartbeatTime])
PriceTradeable == Obj([type |-> "PRICE", status |-> "tradeable", time |-> PriceTime])
PriceTradeableLater ==
    Obj([type |-> "PRICE", status |-> "tradeable", time |-> HeartbeatTime])
PriceClosed == Obj([type |-> "PRICE", status |-> "non-tradeable", time |-> PriceTime])
\* not JSON at all: json.Unmarshal rejects it before writing anything
Garbage == [json |-> "syntax", obj |-> NoKeys]
\* {"status":"tradeable","type":5}: the string fields are stored, the number
\* is skipped and reported as an UnmarshalTypeError
TickMismatch == [json |-> "mismatch", obj |-> [status |-> "tradeable"]]
TickLines == {Heartbeat, PriceTradeable, PriceTradeableLater, PriceClosed, Garbage,
              TickMismatch}

\* transaction stream
FillClose == Obj([type |-> "ORDER_FILL", reason |-> "MARKET_ORDER_TRADE_CLOSE"])
FillTakeProfit == Obj([type |-> "ORDER_FILL", reason |-> "TAKE_PROFIT_ORDER"])
FillOpen == Obj([type |-> "ORDER_FILL", reason |-> "MARKET_ORDER_TRADE_OPEN"])
CancelClose == Obj([type |-> "ORDER_CANCEL", reason |-> "MARKET_ORDER_TRADE_CLOSE"])
CancelOnly == Obj([type |-> "ORDER_CANCEL"])
ReasonOnly == Obj([reason |-> "TAKE_PROFIT_ORDER", id |-> "7"])
TransactionMismatch == [json |-> "mismatch", obj |-> [type |-> "ORDER_FILL"]]
TransactionLines == {FillClose, FillTakeProfit, FillOpen, CancelClose, CancelOnly,
                     ReasonOnly, Garbage, TransactionMismatch}

\* what ReadBytes hands back together with an error
NoBytes == [json |-> "empty", obj |-> NoKeys]
ReadErrors == {"EOF", "connection reset"}

\* -------------------------------------------------------------- records
\* &Tick{} and &Transaction{}: every field at its zero value
Tick == [type |-> "", status |-> "", time |-> ""]
Transaction == [type |-> "", reason |-> "", id |-> ""]

IsHeartbeat(t) == "HEARTBEAT" = t.type
\* variant: the filter looks at the message type instead of the status
IsTradeableByType(t) == "PRICE" = t.type
IsTradeable(t) == "tradeable" = t.status
IsOrderFill(t) == "ORDER_FILL" = t.type
IsMarketOrderTradeClose(t) == "MARKET_ORDER_TRADE_CLOSE" = t.reason
IsTakeProfitOrder(t) == "TAKE_PROFIT_ORDER" = t.reason

\* json.Unmarshal(line, rec) on a struct: keys present are stored, keys the
\* struct does not have are ignored, fields without key are left alone.
Unmarshal(line, rec) ==
    [f \in DOMAIN rec |-> IF f \in DOMAIN line.obj THEN line.obj[f] ELSE rec[f]]

\* variant: the test of the error is inverted
DecodeFailedInverted(line) == line.json = "object"
\* variant: only a syntax error is treated as fatal
DecodeFailedSyntaxOnly(line) == line.json = "syntax"
\* `if err := json.Unmarshal(...); err != nil`
DecodeFailed(line) == line.json # "object"

\* variant: bytes that come with the error are still processed
ReadFailedWithoutBytes(r) == r.err # "nil" /\ r.line.json = "empty"
\* `if err != nil` after reader.ReadBytes
ReadFailed(r) == r.err # "nil"

\* the dispatch conditions of the two loops
RunAccepts(t) == IsTradeable(t)
RunTransactionsAccepts(t) ==
    IsOrderFill(t) /\ (IsMarketOrderTradeClose(t) \/ IsTakeProfitOrder(t))
Accepts(m, t) == IF m = "Run" THEN RunAccepts(t) ELSE RunTransactionsAccepts(t)

\* variant: the handler is started with `go f(tick)` and the loop reads on
HandlerCallPcGo == "read"
\* f(tick) is an ordinary call: the loop waits in it
HandlerCallPc == "handler"

\* ------------------------------------------------------------------ Init
\* a Tick nobody has filled in, and no accessor call made on it
TickUnused ==
    /\ tick = [asks |-> <<>>, bids |-> <<>>, instrument |-> <<>>, time |-> "",
               parsedTime |-> ZeroTime]
    /\ result = [op |-> "none"]
    /\ ncalls = 0
    /\ nparses = 0
    /\ firstParsed = <<>>

\* no client constructed and no run started
RunUnused ==
    /\ baseUrl = <<>>
    /\ clients = <<>>
    /\ method = "none"
    /\ runner = 0
    /\ pc = "idle"
    /\ requested = <<>>
    /\ connFail = "none"
    /\ attempts = 0
    /\ retErr = "nil"
    /\ heap = <<>>
    /\ received = <<>>
    /\ ndecodes = 0
    /\ calls = <<>>
    /\ inHandler = 0
    /\ cache = <<>>
    /\ stamps = <<>>

Init == RunUnused /\ TickUnused

runVars == <<method, runner, pc, requested, connFail, attempts, retErr, heap,
             received, ndecodes, calls, inHandler, cache, stamps, tickVars>>

\* --------------------------------------------------------- constructors
New(account, currencies, live) ==
    /\ pc = "idle"
    /\ Len(clients) < MaxClients
    /\ baseUrl' = PriceTemplate(live)
    /\ clients' = Append(clients, [account |-> account, currencies |-> currencies,
                                   client_type |-> "PRICE", live |-> live])
    /\ UNCHANGED runVars

NewTransaction(account, live) ==
    /\ pc = "idle"
    /\ Len(clients) < MaxClients
    /\ baseUrl' = TransactionTemplate(live)
    /\ clients' = Append(clients, [account |-> account, currencies |-> "",
                                   client_type |-> "TRANSACTION", live |-> live])
    /\ UNCHANGED runVars

\* ------------------------------------------------------------ connecting
\* variant: the error of http.DefaultClient.Do is not checked
AfterConnectUnchecked(requestFails, transportFails) ==
    IF requestFails THEN [pc |-> "done", err |-> "http.NewRequest"]
    ELSE [pc |-> "read", err |-> "nil"]
\* Where the run stands after http.NewRequest and http.DefaultClient.Do.
AfterConnect(requestFails, transportFails) ==
    IF requestFails THEN [pc |-> "done", err |-> "http.NewRequest"]
    ELSE IF transportFails THEN [pc |-> "done", err |-> "http.Get"]
    ELSE [pc |-> "read", err |-> "nil"]

Connect(m, c, u, zero) ==
    /\ pc = "idle"
    /\ method' = m
    /\ runner' = c
    /\ requested' = u
    /\ \E transportFails \in BOOLEAN :
         LET requestFails == NewRequestFails(u)
             next == AfterConnect(requestFails, transportFails)
         IN  /\ connFail' = IF requestFails THEN "request"
                            ELSE IF transportFails THEN "transport" ELSE "none"
             /\ attempts' = IF requestFails THEN attempts ELSE attempts + 1
             /\ pc' = next.pc
             /\ retErr' = next.err
             /\ heap' = IF next.pc = "read" THEN Append(heap, zero) ELSE heap
             /\ cache' = IF next.pc = "read" /\ m = "Run"
                         THEN Append(cache, ZeroTime) ELSE cache
    /\ UNCHANGED <<baseUrl, clients, received, ndecodes, calls, inHandler, stamps,
                   tickVars>>

\* Client.Run up to the loop
RunConnect(c) ==
    /\ c \in 1..Len(clients)
    /\ clients[c].client_type = "PRICE"
    /\ Connect("Run", c, url(clients[c], baseUrl), Tick)

\* Client.RunTransactions up to the loop
RunTransactionsConnect(c) ==
    /\ c \in 1..Len(clients)
    /\ clients[c].client_type = "TRANSACTION"
    /\ Connect("RunTransactions", c, TransactionsUrl(clients[c], baseUrl), Transaction)

\* -------------------------------------------------------------- the loop
\* One pass of the for loop: ReadBytes, Unmarshal into the one target,
\* filter, and the call of the handler (which the loop then waits in).
Iteration(m, r) ==
    /\ pc = "read"
    /\ method = m
    /\ received' = Append(received, r)
    /\ LET target == Len(heap)
           decoded == Unmarshal(r.line, heap[target])
       IN  IF ReadFailed(r)
           THEN /\ pc' = "done"
                /\ retErr' = "reader.ReadBytes"
                /\ UNCHANGED <<heap, ndecodes, calls, inHandler>>
           ELSE /\ ndecodes' = ndecodes + 1
                /\ heap' = [heap EXCEPT ![target] =
                               IF r.line.json = "syntax" THEN @ ELSE decoded]
                /\ IF DecodeFailed(r.line)
                   THEN /\ pc' = "done"
                        /\ retErr' = "json.Unmarshal"
                        /\ UNCHANGED <<calls, inHandler>>
                   ELSE IF Accepts(m, decoded)
                   THEN /\ calls' = Append(calls, [ptr |-> target, snap |-> decoded,
                                                   line |-> Len(received) + 1])
                        /\ inHandler' = inHandler + 1
                        /\ pc' = HandlerCallPc
                        /\ UNCHANGED retErr
                   ELSE /\ pc' = "read"
                        /\ UNCHANGED <<retErr, calls, inHandler>>
    /\ UNCHANGED <<baseUrl, clients, method, runner, requested, connFail, attempts,
                   cache, stamps, tickVars>>

ReadResults(lines) ==
    [line : IF Len(received) < MaxLines THEN lines ELSE {}, err : {"nil"}]
    \cup [line : {NoBytes} \cup (lines \cap {PriceTradeable, FillClose}), err : ReadErrors]

RunIteration == \E r \in ReadResults(TickLines) : Iteration("Run", r)

RunTransactionsIteration ==
    \E r \in ReadResults(TransactionLines) : Iteration("RunTransactions", r)

\* the handler returns and the loop goes on to the next read
HandlerReturn ==
    /\ inHandler > 0
    /\ inHandler' = inHandler - 1
    /\ pc' = IF pc = "handler" THEN "read" ELSE pc
    /\ UNCHANGED <<baseUrl, clients, method, runner, requested, connFail, attempts,
                   retErr, heap, received, ndecodes, calls, cache, stamps, tickVars>>

\* the handler applies UnixTimestamp() or Nanoseconds() to the tick it was
\* given (at most once in an invocation)
HandlerAccessor(op) ==
    /\ method = "Run"
    /\ inHandler > 0
    /\ \A k \in 1..Len(stamps) : stamps[k].call # Len(calls)
    /\ LET ptr == calls[Len(calls)].ptr
           r == Accessor(op, [time |-> heap[ptr].time, parsedTime |-> cache[ptr]])
       IN  /\ cache' = [cache EXCEPT ![ptr] = r.parsed.parsedTime]
           /\ stamps' = Append(stamps, [call |-> Len(calls), op |-> op,
                                        val |-> r.val, err |-> r.err])
    /\ UNCHANGED <<baseUrl, clients, method, runner, pc, requested, connFail, attempts,
                   retErr, heap, received, ndecodes, calls, inHandler, tickVars>>

HandlerUnixTimestamp == HandlerAccessor("UnixTimestamp")
HandlerNanoseconds == HandlerAccessor("Nanoseconds")

Next ==
    \/ \E a \in Accounts, cur \in Currencies, live \in BOOLEAN : New(a, cur, live)
    \/ \E a \in Accounts, live \in BOOLEAN : NewTransaction(a, live)
    \/ \E c \in 1..MaxClients : RunConnect(c)
    \/ \E c \in 1..MaxClients : RunTransactionsConnect(c)
    \/ RunIteration
    \/ RunTransactionsIteration
    \/ HandlerReturn
    \/ HandlerUnixTimestamp
    \/ HandlerNanoseconds

Spec == Init /\ [][Next]_vars

\* ---------------------------------------------------- best ask, best bid
\* price texts of the quotes, and what strconv.ParseFloat(text, 64) makes
\* of them
PriceTexts == {"-1", "0.0", "5", "7", "x"}
ParseFloat(text) ==
    CASE text = "-1" -> [val |-> -1, err |-> FALSE]
      [] text = "0.0" -> [val |-> 0, err |-> FALSE]
      [] text = "5" -> [val |-> 5, err |-> FALSE]
      [] text = "7" -> [val |-> 7, err |-> FALSE]
      [] OTHER -> [val |-> 0, err |-> TRUE]

Quotes == [liquidity : {10000000}, price : PriceTexts]
QuoteSeqs(n) == UNION {[1..k -> Quotes] : k \in 0..n}

\* variant: a price that does not parse counts as 0
PriceAsFloatDefault(q) == [val |-> ParseFloat(q.price).val, err |-> FALSE]
\* Quote.PriceAsFloat
PriceAsFloat(q) ==
    LET p == ParseFloat(q.price)
    IN  IF p.err THEN [val |-> 0, err |-> TRUE] ELSE [val |-> p.val, err |-> FALSE]

\* variant: the first price is kept
AskStepKeepFirst(best, val) == IF 0 = best THEN val ELSE best
\* variant: plain minimum, no test for 0
AskStepNoSentinel(best, val) == IF val < best THEN val ELSE best
\* the body of the loop of BestAsk after the price is parsed
AskStep(best, val) == IF 0 = best THEN val ELSE IF val < best THEN val ELSE best

\* the body of the loop of BestBid after the price is parsed
BidStep(best, val) == IF val > best THEN val ELSE best

\* the loops of BestAsk and BestBid from entry i on, with the best so far
RECURSIVE BestAskLoop(_, _, _)
BestAskLoop(asks, i, best) ==
    IF i > Len(asks) THEN [val |-> best, err |-> FALSE]
    ELSE LET p == PriceAsFloat(asks[i])
         IN  IF p.err THEN [val |-> 0, err |-> TRUE]
             ELSE BestAskLoop(asks, i + 1, AskStep(best, p.val))

RECURSIVE BestBidLoop(_, _, _)
BestBidLoop(bids, i, best) ==
    IF i > Len(bids) THEN [val |-> best, err |-> FALSE]
    ELSE LET p == PriceAsFloat(bids[i])
         IN  IF p.err THEN [val |-> 0, err |-> TRUE]
             ELSE BestBidLoop(bids, i + 1, BidStep(best, p.val))

\* Tick.BestAsk
BestAsk(t) ==
    IF 0 = Len(t.asks) THEN [val |-> 0, err |-> FALSE] ELSE BestAskLoop(t.asks, 1, 0)

\* variant: the asks are looked at instead of the bids
BestBidOfAsks(t) ==
    IF 0 = Len(t.asks) THEN [val |-> 0, err |-> FALSE] ELSE BestBidLoop(t.asks, 1, 0)
\* Tick.BestBid
BestBid(t) ==
    IF 0 = Len(t.bids) THEN [val |-> 0, err |-> FALSE] ELSE BestBidLoop(t.bids, 1, 0)

\* a caller holds a Tick with any asks and bids and asks for the best prices
InitBest ==
    /\ RunUnused
    /\ tick \in [asks : QuoteSeqs(MaxAsks), bids : QuoteSeqs(MaxBids),
                 instrument : {<<>>}, time : {""}, parsedTime : {ZeroTime}]
    /\ result = [op |-> "none"]
    /\ ncalls = 0
    /\ nparses = 0
    /\ firstParsed = <<>>

CallBestAsk ==
    /\ result' = [op |-> "BestAsk", val |-> BestAsk(tick).val, err |-> BestAsk(tick).err]
    /\ UNCHANGED <<streamVars, tick, ncalls, nparses, firstParsed>>

CallBestBid ==
    /\ result' = [op |-> "BestBid", val |-> BestBid(tick).val, err |-> BestBid(tick).err]
    /\ UNCHANGED <<streamVars, tick, ncalls, nparses, firstParsed>>

NextBest == CallBestAsk \/ CallBestBid

SpecBest == InitBest /\ [][NextBest]_vars

\* ------------------------------------------------------- timestamp cache
TimeTexts == {PriceTime, PriceTimeTokyo, HeartbeatTime, YearOneTime, NotATime, ""}

\* a caller holds a Tick with any time text, applies the timestamp
\* accessors to it and may assign its exported Time field in between
InitTime ==
    /\ RunUnused
    /\ tick \in [asks : {<<>>}, bids : {<<>>}, instrument : {<<>>}, time : TimeTexts,
                 parsedTime : {ZeroTime}]
    /\ result = [op |-> "none"]
    /\ ncalls = 0
    /\ nparses = 0
    /\ firstParsed = <<>>

CallAccessor(op) ==
    /\ ncalls < MaxTimeCalls
    /\ LET r == Accessor(op, tick)
       IN  /\ tick' = [tick EXCEPT !.parsedTime = r.parsed.parsedTime]
           /\ result' = [op |-> op, val |-> r.val, err |-> r.err]
           /\ nparses' = nparses + r.parsed.parses
           /\ firstParsed' = IF firstParsed = <<>> /\ r.parsed.parses = 1 /\ ~r.err
                             THEN <<r.parsed.val>> ELSE firstParsed
    /\ ncalls' = ncalls + 1
    /\ UNCHANGED streamVars

CallUnixTimestamp == CallAccessor("UnixTimestamp")
CallNanoseconds == CallAccessor("Nanoseconds")

SetTime(text) ==
    /\ text # tick.time
    /\ tick' = [tick EXCEPT !.time = text]
    /\ UNCHANGED <<streamVars, result, ncalls, nparses, firstParsed>>

NextTime ==
    \/ CallUnixTimestamp
    \/ CallNanoseconds
    \/ \E text \in TimeTexts : SetTime(text)

SpecTime == InitTime /\ [][NextTime]_vars

\* ---------------------------------------------------------------- symbol
\* an instrument is the sequence of its characters
Letters == {"E", "J", "_"}
Instruments == UNION {[1..k -> Letters] : k \in 0..MaxInstrument}

Underscores(s) == {i \in 1..Len(s) : s[i] = "_"}

\* variant: strings.Replace(s, "_", "", -1)
RemoveAll(s) == SelectSeq(s, LAMBDA ch : ch # "_")
\* strings.Replace(s, "_", "", 1)
RemoveFirst(s) ==
    IF Underscores(s) = {} THEN s
    ELSE LET i == CHOOSE i \in Underscores(s) : \A j \in Underscores(s) : i <= j
         IN  SubSeq(s, 1, i - 1) \o SubSeq(s, i + 1, Len(s))

\* Tick.Symbol
Symbol(t) == RemoveFirst(t.instrument)

InitSymbol ==
    /\ RunUnused
    /\ tick \in [asks : {<<>>}, bids : {<<>>}, instrument : Instruments, time : {""},
                 parsedTime : {ZeroTime}]
    /\ result = [op |-> "none"]
    /\ ncalls = 0
    /\ nparses = 0
    /\ firstParsed = <<>>

CallSymbol ==
    /\ result' = [op |-> "Symbol", val |-> Symbol(tick), err |-> FALSE]
    /\ UNCHANGED <<streamVars, tick, ncalls, nparses, firstParsed>>

NextSymbol == CallSymbol

SpecSymbol == InitSymbol /\ [][NextSymbol]_vars

\* ------------------------------------------------------------- fairness
\* The loop of a run goes on as long as it can: a finite body delivers
\* its next line or its end, and the handler returns.
FairSpec ==
    /\ Spec
    /\ WF_vars(RunIteration)
    /\ WF_vars(RunTransactionsIteration)
    /\ WF_vars(HandlerReturn)

TypeOK ==
    /\ pc \in {"idle", "read", "handler", "done"}
    /\ method \in {"none", "Run", "RunTransactions"}
    /\ Len(clients) <= MaxClients
    /\ Len(received) <= MaxLines + 1
\* ================================================================ claims
ReadOk(i) == received[i].err = "nil"
LineAt(i) == received[i].line
Called(i) == \E k \in 1..Len(calls) : calls[k].line = i
CalledLines == [k \in 1..Len(calls) |-> calls[k].line]
LineNos == [i \in 1..Len(received) |-> i]

\* a line carrying only type "HEARTBEAT" and time
IsHeartbeatLine(l) ==
    /\ l.json = "object"
    /\ DOMAIN l.obj = {"type", "time"}
    /\ l.obj.type = "HEARTBEAT"

\* C1: in Client.Run a heartbeat line never causes the price handler to be
\* invoked, whatever was received before it on the same stream.
C1_HeartbeatNeverDispatched ==
    method = "Run" =>
        \A i \in 1..Len(received) :
            (ReadOk(i) /\ IsHeartbeatLine(LineAt(i))) => ~Called(i)

CarriesStatus(l) == l.json = "object" /\ "status" \in DOMAIN l.obj
AllCarryStatus == \A i \in 1..Len(received) : ReadOk(i) => CarriesStatus(LineAt(i))
TradeableLine(i) == ReadOk(i) /\ LineAt(i).obj.status = "tradeable"

\* C2: in Client.Run, when every line received is well-formed and carries a
\* status field, the handler invocations are exactly the lines whose status
\* is "tradeable", once each and in stream order.
C2_TradeableLinesDispatchedInOrder ==
    (method = "Run" /\ AllCarryStatus) =>
        CalledLines = SelectSeq(LineNos, TradeableLine)

C2_Witness ==
    /\ method = "Run"
    /\ AllCarryStatus
    /\ Len(calls) = 2
    /\ \E i \in 1..Len(received) : ReadOk(i) /\ LineAt(i) = PriceClosed

\* what a transaction line says by itself
OwnFillToForward(l) ==
    /\ l.json = "object"
    /\ "type" \in DOMAIN l.obj
    /\ "reason" \in DOMAIN l.obj
    /\ l.obj.type = "ORDER_FILL"
    /\ l.obj.reason \in {"MARKET_ORDER_TRADE_CLOSE", "TAKE_PROFIT_ORDER"}

\* C3: in Client.RunTransactions a received line reaches the handler iff
\* that line itself has type ORDER_FILL and reason MARKET_ORDER_TRADE_CLOSE
\* or TAKE_PROFIT_ORDER; values left from earlier lines play no part.
C3_TransactionJudgedOnOwnContent ==
    method = "RunTransactions" =>
        \A i \in 1..Len(received) :
            ReadOk(i) => (Called(i) <=> OwnFillToForward(LineAt(i)))

AbsentFieldsZero(rec, l) == \A f \in DOMAIN rec : f \notin DOMAIN l.obj => rec[f] = ""

\* C4: in both loops, after a line is decoded every field absent from that
\* line is empty in the record that is filtered and handed to the handler.
C4_AbsentFieldsAreZero ==
    /\ \A k \in 1..Len(calls) : AbsentFieldsZero(calls[k].snap, LineAt(calls[k].line))
    /\ (pc \in {"read", "handler"} /\ received # <<>>) =>
           AbsentFieldsZero(heap[Len(heap)], LineAt(Len(received)))

\* C5: a run never returns without error; a failed read, a clean end of
\* stream included, ends the run with the read error, and the bytes that
\* came with the failure are neither decoded nor dispatched.
C5_ReadFailureEndsRun ==
    /\ pc = "done" => retErr # "nil"
    /\ \A i \in 1..Len(received) :
           ~ReadOk(i) =>
               /\ i = Len(received)
               /\ pc = "done"
               /\ retErr = "reader.ReadBytes"
               /\ ndecodes = i - 1
               /\ ~Called(i)

C5_Witness ==
    /\ pc = "done"
    /\ retErr = "reader.ReadBytes"
    /\ Len(received) = 3
    /\ Len(calls) = 1
    /\ received[3] = [line |-> PriceTradeable, err |-> "EOF"]

Malformed(i) == ReadOk(i) /\ LineAt(i).json # "object"

\* C6: a line that fails to decode ends the run with the decode error: no
\* handler call for it, nothing read after it, and the handler calls made
\* are those made before it.
C6_DecodeFailureEndsRun ==
    /\ [](\A i \in 1..Len(received) :
            Malformed(i) =>
                /\ i = Len(received)
                /\ pc = "done"
                /\ retErr = "json.Unmarshal"
                /\ inHandler = 0
                /\ \A k \in 1..Len(calls) : calls[k].line < i)
    /\ [][(Len(received') = Len(received) + 1
            /\ received'[Len(received')].err = "nil"
            /\ received'[Len(received')].line.json # "object")
          => calls' = calls]_vars
    /\ [][retErr = "json.Unmarshal"
          => (received' = received /\ calls' = calls /\ ndecodes' = ndecodes)]_vars

C6_Witness ==
    /\ pc = "done"
    /\ retErr = "json.Unmarshal"
    /\ Len(calls) = 1
    /\ Len(received) = 3
    /\ LineAt(3) = TickMismatch

\* the URL of the environment and account a client was built with
OwnUrl(c) ==
    IF c.client_type = "PRICE"
    THEN Sprintf(PriceTemplate(c.live), <<c.account, c.currencies>>)
    ELSE Sprintf(TransactionTemplate(c.live), <<c.account>>)

\* C7: a run requests the stream URL of the environment given to the
\* constructor call that built its client, filled with that client's own
\* account (and instruments), whatever clients were constructed in between.
C7_RunRequestsOwnUrl ==
    runner # 0 => requested = OwnUrl(clients[runner])

\* C8: a failure to build the request or to connect ends the run with that
\* error, with no line read and no handler call; a run connects at most
\* once and does nothing more once it has returned an error.
C8_ConnectFailureEndsRun ==
    /\ [](/\ attempts <= 1
          /\ connFail # "none" =>
                /\ pc = "done"
                /\ retErr = (IF connFail = "request" THEN "http.NewRequest"
                             ELSE "http.Get")
                /\ received = <<>>
                /\ ndecodes = 0
                /\ calls = <<>>
                /\ inHandler = 0)
    /\ [][retErr # "nil"
          => (/\ retErr' = retErr
              /\ attempts' = attempts
              /\ received' = received
              /\ calls' = calls)]_vars

C8_Witness ==
    /\ connFail = "transport"
    /\ pc = "done"
    /\ retErr = "http.Get"
    /\ attempts = 1

\* C9: the handler runs after its line is decoded and filtered and returns
\* before the next read: at most one invocation is in progress, and while it
\* is, nothing is read and the decode target is not written.
C9_HandlerDoesNotOverlap ==
    /\ [](/\ inHandler <= 1
          /\ inHandler = 1 =>
                /\ pc = "handler"
                /\ calls # <<>>
                /\ calls[Len(calls)].line = Len(received)
                /\ heap[calls[Len(calls)].ptr] = calls[Len(calls)].snap)
    /\ [][inHandler > 0
          => (/\ heap' = heap
              /\ received' = received
              /\ ndecodes' = ndecodes
              /\ calls' = calls)]_vars

C9_Witness ==
    /\ inHandler = 1
    /\ pc = "handler"
    /\ Len(calls) = 2

\* C10: the record given to a handler invocation is a snapshot: later
\* decodes do not change it, and two invocations do not share a record.
C10_DeliveredRecordIsSnapshot ==
    \A i \in 1..Len(calls) :
        /\ heap[calls[i].ptr] = calls[i].snap
        /\ \A j \in 1..Len(calls) : i # j => calls[i].ptr # calls[j].ptr
\* ------------------------------------------------ claims on the best prices
AllParse(quotes) == \A i \in 1..Len(quotes) : ~ParseFloat(quotes[i].price).err
Parsed(quotes) == {ParseFloat(quotes[i].price).val : i \in 1..Len(quotes)}
Prices(quotes) == [i \in 1..Len(quotes) |-> quotes[i].price]
SetMax(S) == CHOOSE x \in S : \A y \in S : y <= x
SetMin(S) == CHOOSE x \in S : \A y \in S : x <= y

\* C11: for non-empty bids whose prices all parse, zero and negative values
\* included, BestBid() returns the maximum of the parsed prices.
C11_BestBidIsMaximum ==
    (result.op = "BestBid" /\ tick.bids # <<>> /\ AllParse(tick.bids)) =>
        (~result.err /\ result.val = SetMax(Parsed(tick.bids)))

\* C12: for non-empty asks whose prices all parse and none of which parses
\* to 0, in any order, BestAsk() returns the minimum of the parsed prices.
C12_BestAskIsMinimum ==
    (/\ result.op = "BestAsk"
     /\ tick.asks # <<>>
     /\ AllParse(tick.asks)
     /\ 0 \notin Parsed(tick.asks)) =>
        (~result.err /\ result.val = SetMin(Parsed(tick.asks)))

C12_Witness ==
    /\ result.op = "BestAsk"
    /\ Prices(tick.asks) = <<"7", "-1", "5">>
    /\ result.val = -1

\* C13: with empty asks BestAsk() returns 0 and no error, with empty bids
\* BestBid() returns 0 and no error, whatever the other sequence holds.
C13_EmptyGivesZero ==
    /\ (result.op = "BestAsk" /\ tick.asks = <<>>) => (result.val = 0 /\ ~result.err)
    /\ (result.op = "BestBid" /\ tick.bids = <<>>) => (result.val = 0 /\ ~result.err)

C13_Witness ==
    /\ result.op = "BestBid"
    /\ tick.bids = <<>>
    /\ Prices(tick.asks) = <<"5", "x">>

\* C14: if a price of asks (for BestAsk) or bids (for BestBid) fails to
\* parse, at any position, the operation returns an error and the value 0.
C14_ParseFailureFailsAll ==
    /\ (result.op = "BestAsk" /\ ~AllParse(tick.asks)) => (result.err /\ result.val = 0)
    /\ (result.op = "BestBid" /\ ~AllParse(tick.bids)) => (result.err /\ result.val = 0)

C14_Witness ==
    /\ result.op = "BestAsk"
    /\ Prices(tick.asks) = <<"5", "7", "x">>
    /\ result.err

AsksUpTo(i) == [tick EXCEPT !.asks = SubSeq(tick.asks, 1, i)]
BidsUpTo(i) == [tick EXCEPT !.bids = SubSeq(tick.bids, 1, i)]
Five == [liquidity |-> 10000000, price |-> "5"]
Zero == [liquidity |-> 10000000, price |-> "0.0"]
Seven == [liquidity |-> 10000000, price |-> "7"]

\* C17: in BestAsk a best so far of 0 is replaced by the next price whatever
\* it is, so 0 is the result only when the last ask parses to 0, and asks
\* 5, 0, 7 give 7; in BestBid a best so far of 0 is replaced only by a
\* greater price.
C17_BestAskZeroIsUnset ==
    /\ (result.op = "BestAsk" /\ AllParse(tick.asks)) =>
          /\ \A i \in 1..(Len(tick.asks) - 1) :
                 BestAsk(AsksUpTo(i)).val = 0 =>
                     BestAsk(AsksUpTo(i + 1)).val = ParseFloat(tick.asks[i + 1].price).val
          /\ (tick.asks # <<>> /\ result.val = 0) =>
                 ParseFloat(tick.asks[Len(tick.asks)].price).val = 0
          /\ tick.asks = <<Five, Zero, Seven>> => result.val = 7
    /\ (result.op = "BestBid" /\ AllParse(tick.bids)) =>
          \A i \in 1..(Len(tick.bids) - 1) :
              (BestBid(BidsUpTo(i)).val = 0 /\ ParseFloat(tick.bids[i + 1].price).val <= 0)
                  => BestBid(BidsUpTo(i + 1)).val = 0

C17_Witness ==
    /\ result.op = "BestAsk"
    /\ tick.asks = <<Five, Zero, Seven>>
    /\ result.val = 7
\* -------------------------------------------- claims on the timestamp cache
ValueOf(op, t) == IF op = "UnixTimestamp" THEN t.unix ELSE <<0, t.nsec>>

\* C15: once the timestamp of a Tick has been parsed successfully, every
\* later accessor call returns the value of that parse, without error and
\* without parsing again, even if the time text was changed since.
C15_ParsedAtMostOnce ==
    [][(firstParsed # <<>> /\ ncalls' = ncalls + 1) =>
           /\ ~result'.err
           /\ result'.val = ValueOf(result'.op, firstParsed[1])
           /\ nparses' = nparses]_vars

TimeTextOf(l) == IF "time" \in DOMAIN l.obj THEN l.obj.time ELSE ""

\* C16: in Client.Run, what UnixTimestamp() or Nanoseconds() returns to the
\* handler comes from the time field of the line of that invocation: its
\* timestamp when the text is valid, an error when it is not.
C16_StampIsOfOwnLine ==
    \A k \in 1..Len(stamps) :
        LET p == Parse(TimeTextOf(LineAt(calls[stamps[k].call].line)))
        IN  IF p.err THEN stamps[k].err
            ELSE ~stamps[k].err /\ stamps[k].val = ValueOf(stamps[k].op, p.val)

Connected == pc \in {"read", "handler"}
OkReads == {i \in 1..Len(received) : ReadOk(i)}

\* C18: with a finite body and a handler that returns, a connected run
\* eventually returns an error; it has then decoded every line read up to
\* the first read or decode failure, and it stopped at such a failure, never
\* at a well-formed line.
C18_RunEventuallyReturns ==
    /\ Connected ~> (pc = "done" /\ retErr # "nil")
    /\ []((pc = "done" /\ connFail = "none") =>
            /\ received # <<>>
            /\ ~ReadOk(Len(received)) \/ Malformed(Len(received))
            /\ \A i \in 1..(Len(received) - 1) : ReadOk(i) /\ ~Malformed(i)
            /\ ndecodes = Cardinality(OkReads))

C18_Witness ==
    /\ pc = "done"
    /\ retErr = "reader.ReadBytes"
    /\ Len(received) = MaxLines + 1
    /\ calls = <<>>
    /\ ndecodes = MaxLines

\* C19: Symbol() returns the instrument without its first underscore: an
\* instrument without underscore as it is, every later underscore kept;
\* the Tick is left as it was.
C19_SymbolRemovesFirstUnderscore ==
    /\ [](result.op = "Symbol" =>
            LET s == tick.instrument
                v == result.val
            IN  IF \A i \in 1..Len(s) : s[i] # "_" THEN v = s
                ELSE \E i \in 1..Len(s) :
                        /\ s[i] = "_"
                        /\ \A j \in 1..(i - 1) : s[j] # "_"
                        /\ v = [j \in 1..(Len(s) - 1) |-> IF j < i THEN s[j] ELSE s[j + 1]])
    /\ [][result'.op = "Symbol" => tick' = tick]_vars

C19_Witness ==
    /\ result.op = "Symbol"
    /\ tick.instrument = <<"E", "_", "J", "_">>
    /\ result.val = <<"E", "J", "_">>
====
